---- MODULE Spec2Model ----
(***************************************************************************)
(* Model of the document question-answering service:                       *)
(*   - api/hackrx/run.py   process_documents (request handler)             *)
(*   - app/utils.py        verify_token                                    *)
(*   - app/processors.py   DocumentProcessor, VectorStoreManager,          *)
(*                         QueryProcessor                                  *)
(*   - extractor.py        download_pdf, extract_from_pdf, extract_text    *)
(* Python strings whose characters matter (headers, page texts) are        *)
(* sequences of one-character strings; messages are TLA+ strings.          *)
(***************************************************************************)
EXTENDS Integers, Sequences, FiniteSets, TLC

VARIABLES
    pc,             \* position of process_documents
    authorization,  \* the Authorization header of the request
    document,       \* payload.documents
    questions,      \* payload.questions
    calls,          \* pipeline functions invoked so far, in order
    exc,            \* exception in flight inside process_documents
    response,       \* what the caller of process_documents gets
    raw_docs,       \* documents returned by load_document
    chunks,         \* chunks returned by chunk_documents
    vector_store,   \* VectorStoreManager.vector_store
    qi,             \* index of the question the for loop is at
    result,         \* result["result"] of process_query, the LLM text
    formatted_answer,
    answers,        \* the answers list
    produced        \* history: per question processed, in order, the
                    \* question, the LLM text if there was one, what
                    \* raised if anything did, and the outcome

hvars == <<pc, authorization, document, questions, calls, exc, response>>
pvars == <<raw_docs, chunks, vector_store, qi, result, formatted_answer,
           answers, produced>>

VARIABLES
    ci              \* chunk_documents: number of chunks the loop has done

cvars == <<ci>>

VARIABLES
    xpc,            \* position of extract_text
    is_url,         \* argument of extract_text
    ext,            \* extension of a local input_source
    file_exists,    \* whether a local input_source exists
    temp_exists,    \* whether download_pdf's temporary file is on disk
    temp_file_path, \* extract_text's temp_file_path
    text,           \* extract_from_pdf's text
    stage,          \* the extraction stage extract_from_pdf is at
    page,           \* pages of the stage done so far
    n_pages,        \* pages the stage's reader found
    attempted,      \* history: the stages attempted, with the text before
    stage1_text,    \* history: the text when stage 1 ended
    xresult         \* how extract_text ended: the value returned or the
                    \* exception raised

evars == <<xpc, is_url, ext, file_exists, temp_exists, temp_file_path,
           text, stage, page, n_pages, attempted, stage1_text, xresult>>

VARIABLES
    pq_pc,          \* position of QueryProcessor.process_query
    pq_query,       \* its query argument
    pq_domain,      \* its domain argument, then the local it rebinds
    prompt_template,\* the template handed to the chain
    pq_result       \* how process_query ended

qvars == <<pq_pc, pq_query, pq_domain, prompt_template, pq_result>>

vars == <<hvars, pvars, cvars, qvars, evars, qvars>>

(***************************************************************************)
(* Bounds of the model.                                                    *)
(***************************************************************************)
MaxQuestions == 2
MaxDocs == 1
MaxPieces == 2
MaxPages == 2

(***************************************************************************)
(* Python string helpers.                                                  *)
(***************************************************************************)
\* str.startswith(prefix)
StartsWith(s, prefix) ==
    /\ Len(s) >= Len(prefix)
    /\ SubSeq(s, 1, Len(prefix)) = prefix

\* str.split(sep) for a one-character separator: the pieces between
\* separators, empty pieces kept.
RECURSIVE Split(_, _)
Split(s, sep) ==
    IF \A i \in 1..Len(s) : s[i] # sep
    THEN <<s>>
    ELSE LET i == CHOOSE k \in 1..Len(s) :
                      s[k] = sep /\ \A j \in 1..(k - 1) : s[j] # sep
         IN  <<SubSeq(s, 1, i - 1)>> \o Split(SubSeq(s, i + 1, Len(s)), sep)

(***************************************************************************)
(* app/utils.py                                                            *)
(***************************************************************************)
\* "Bearer "
BearerPrefix == <<"B", "e", "a", "r", "e", "r", " ">>

\* The value of the HACKRX_API_KEY environment variable (abstracted to two
\* characters) and a token that differs from it.
ApiKey == <<"k", "1">>
WrongToken == <<"w", "9">>

\* Names bound in the module namespace of app/utils.py: its imports and its
\* definitions.  "os" is not among them.
UtilsGlobals == {"logging", "HTTPException", "status", "logger", "verify_token"}

\* Authorization headers a client may send.
Headers ==
    { BearerPrefix \o ApiKey,           \* the configured secret
      BearerPrefix \o WrongToken,       \* a different token
      BearerPrefix,                     \* prefix, empty token
      <<"B", "a", "s", "i", "c", " ">> \o ApiKey,   \* another scheme
      ApiKey,                           \* bare token, no prefix
      <<>> }                            \* empty header

\* verify_token: the outcome of the call, "True" or the exception it raises.
verify_token(auth) ==
    IF ~StartsWith(auth, BearerPrefix)
    THEN [type |-> "HTTPException", status |-> 401,
          detail |-> "Invalid authorization header format"]
    ELSE LET token == Split(auth, " ")[2] IN
         IF "os" \notin UtilsGlobals
         THEN [type |-> "NameError", status |-> 0,
               detail |-> "name 'os' is not defined"]
         ELSE IF token # ApiKey
         THEN [type |-> "HTTPException", status |-> 401,
               detail |-> "Invalid API token"]
         ELSE [type |-> "True", status |-> 0, detail |-> ""]

(***************************************************************************)
(* Python values and dicts.  A value is tagged with its Python type; a     *)
(* dict is a function whose domain is its key set.                         *)
(***************************************************************************)
PyVal(type, v) == [t |-> type, v |-> v]

StrUnknown == PyVal("str", "unknown")
IntZero == PyVal("int", "0")

\* dict.get(key, default)
DictGet(d, key, default) == IF key \in DOMAIN d THEN d[key] ELSE default

\* d[key] = value
DictSet(d, key, value) ==
    [k \in (DOMAIN d) \cup {key} |-> IF k = key THEN value ELSE d[k]]

\* the dict without the keys in gone (del d[key] for each of them)
DictDel(d, gone) == [k \in (DOMAIN d) \ gone |-> d[k]]

(***************************************************************************)
(* app/processors.py: DocumentProcessor                                    *)
(***************************************************************************)
HTTPException(status, detail) ==
    [type |-> "HTTPException", status |-> status, detail |-> detail]

NoExc == [type |-> "none", status |-> 0, detail |-> ""]

\* The documents each loader returns for the URL suffixes of the model
\* (one document; a document is its number of split pieces and its
\* metadata).
LoadedDocs(url) ==
    CASE url = ".pdf"  -> <<[pieces |-> 2,
                             metadata |-> [k \in {"source", "page"} |->
                                 IF k = "source" THEN PyVal("str", "doc.pdf")
                                                 ELSE PyVal("int", "3")]]>>
      [] url = ".docx" -> <<[pieces |-> 1,
                             metadata |-> [k \in {"source"} |->
                                 PyVal("str", "doc.docx")]]>>
      [] OTHER         -> <<[pieces |-> 1,
                             metadata |-> [k \in {"source", "sent_to"} |->
                                 IF k = "source" THEN PyVal("str", "doc.eml")
                                                 ELSE PyVal("list", "[a, b]")]]>>

\* load_document(document_url); loaderOk: whether loader.load() returns.
\* The result is the documents, or the exception raised.
load_document(url, loaderOk) ==
    IF url \notin {".pdf", ".docx", ".eml", ".msg"}
    THEN [ok |-> FALSE, docs |-> <<>>,
          exc |-> HTTPException(400, "Document loading error: Unsupported file format")]
    ELSE IF ~loaderOk
    THEN [ok |-> FALSE, docs |-> <<>>,
          exc |-> HTTPException(400, "Document loading error: load failed")]
    ELSE [ok |-> TRUE, docs |-> LoadedDocs(url), exc |-> NoExc]

\* RecursiveCharacterTextSplitter.split_documents with add_start_index:
\* each document gives its pieces in order, each with a copy of the
\* document's metadata and its start_index.  origin (not a field of the
\* program's chunk) is the position of the document the chunk came from.
RECURSIVE SplitFrom(_, _)
SplitFrom(documents, k) ==
    IF k > Len(documents) THEN <<>>
    ELSE LET doc == documents[k] IN
         [j \in 1..doc.pieces |->
             [text |-> j,
              origin |-> k,
              metadata |-> DictSet(doc.metadata, "start_index",
                                   PyVal("int", "offset"))]]
         \o SplitFrom(documents, k + 1)

split_documents(documents) == SplitFrom(documents, 1)

\* isinstance that also accepts None.
IsSerializableOrNone(value) ==
    value.t \in {"str", "int", "float", "bool", "None"}

\* isinstance(value, (str, int, float, bool))
IsSerializable(value) == value.t \in {"str", "int", "float", "bool"}

\* lines 55-60: the body of the loop over the chunks
EnhanceMetadata(chunk) ==
    LET m1 == DictSet(chunk.metadata, "source",
                      DictGet(chunk.metadata, "source", StrUnknown))
        m2 == DictSet(m1, "page", DictGet(m1, "page", IntZero))
        bad == {key \in DOMAIN m2 : ~IsSerializable(m2[key])}
    IN  [chunk EXCEPT !.metadata = DictDel(m2, bad)]

\* chunk_documents(documents); splitOk: whether split_documents returns.
chunk_documents(documents, splitOk) ==
    IF ~splitOk
    THEN [ok |-> FALSE, chunks |-> <<>>,
          exc |-> HTTPException(500, "Document processing error: split failed")]
    ELSE LET cs == split_documents(documents) IN
         [ok |-> TRUE,
          chunks |-> [i \in 1..Len(cs) |-> EnhanceMetadata(cs[i])],
          exc |-> NoExc]

(***************************************************************************)
(* app/processors.py: VectorStoreManager                                   *)
(***************************************************************************)
\* create_vector_store that logs the failure and returns instead of raising.
create_vector_store_swallow(cs, faissOk) ==
    [ok |-> TRUE, store |-> IF faissOk THEN "FAISS" ELSE "None", exc |-> NoExc]

\* create_vector_store(chunks, use_pinecone=False); faissOk: whether
\* FAISS.from_documents returns.
create_vector_store(cs, faissOk) ==
    IF ~faissOk
    THEN [ok |-> FALSE, store |-> "None",
          exc |-> HTTPException(500, "Vector store error: embedding failed")]
    ELSE [ok |-> TRUE, store |-> "FAISS", exc |-> NoExc]

\* similarity_search(query); searchOk: whether the store's search returns.
similarity_search(store, query, searchOk) ==
    IF store = "None"
    THEN [ok |-> FALSE,
          exc |-> HTTPException(500, "Search error: Vector store not initialized")]
    ELSE IF ~searchOk
    THEN [ok |-> FALSE,
          exc |-> HTTPException(500, "Search error: search failed")]
    ELSE [ok |-> TRUE, exc |-> NoExc]

(***************************************************************************)
(* app/processors.py: QueryProcessor                                       *)
(***************************************************************************)
\* Texts the LLM may return as result["result"].
ProseText == "Paris is the capital."
BareStringText == "\"Paris\""
NumberText == "42"
ArrayText == "[\"Paris\"]"
AnswerOnlyText == "{\"answer\": \"Paris\"}"
FullText == "{\"answer\": \"Yes\", \"conditions\": [\"c1\", \"c2\"], \"references\": [], \"rationale\": \"r\", \"confidence\": \"High\"}"
IntConditionsText == "{\"answer\": \"Yes\", \"conditions\": [1]}"
StrConditionsText == "{\"answer\": \"Yes\", \"conditions\": \"ab\"}"
NullConditionsText == "{\"answer\": \"Yes\", \"conditions\": null}"

LLMTexts == {ProseText, BareStringText, NumberText, ArrayText, AnswerOnlyText,
             FullText, IntConditionsText, StrConditionsText, NullConditionsText}

\* process_query(query, relevant_docs); llmOk: whether the chain returns,
\* llm_text: what the LLM answered.
process_query(query, llmOk, llm_text) ==
    IF ~llmOk
    THEN [ok |-> FALSE, result |-> "",
          exc |-> HTTPException(500, "Query processing error: chain failed")]
    ELSE [ok |-> TRUE, result |-> llm_text, exc |-> NoExc]

(***************************************************************************)
(* json and str as process_documents uses them.                            *)
(***************************************************************************)
PyNone == PyVal("None", "None")
PyList(items) == PyVal("list", items)

\* json.loads on the texts of the model: the value, or JSONDecodeError.
json_loads(s) ==
    IF s = BareStringText THEN [ok |-> TRUE, value |-> PyVal("str", "Paris")]
    ELSE IF s = NumberText THEN [ok |-> TRUE, value |-> PyVal("int", "42")]
    ELSE IF s = ArrayText
    THEN [ok |-> TRUE, value |-> PyList(<<PyVal("str", "Paris")>>)]
    ELSE IF s = AnswerOnlyText
    THEN [ok |-> TRUE,
          value |-> PyVal("dict", [k \in {"answer"} |-> PyVal("str", "Paris")])]
    ELSE IF s = FullText
    THEN [ok |-> TRUE,
          value |-> PyVal("dict",
              [k \in {"answer", "conditions", "references", "rationale", "confidence"} |->
                  CASE k = "answer" -> PyVal("str", "Yes")
                    [] k = "conditions" -> PyList(<<PyVal("str", "c1"), PyVal("str", "c2")>>)
                    [] k = "references" -> PyList(<<>>)
                    [] k = "rationale" -> PyVal("str", "r")
                    [] OTHER -> PyVal("str", "High")])]
    ELSE IF s = IntConditionsText
    THEN [ok |-> TRUE,
          value |-> PyVal("dict", [k \in {"answer", "conditions"} |->
              IF k = "answer" THEN PyVal("str", "Yes")
              ELSE PyList(<<PyVal("int", "1")>>)])]
    ELSE IF s = StrConditionsText
    THEN [ok |-> TRUE,
          value |-> PyVal("dict", [k \in {"answer", "conditions"} |->
              IF k = "answer" THEN PyVal("str", "Yes")
              ELSE PyVal("str", "ab")])]
    ELSE IF s = NullConditionsText
    THEN [ok |-> TRUE,
          value |-> PyVal("dict", [k \in {"answer", "conditions"} |->
              IF k = "answer" THEN PyVal("str", "Yes") ELSE PyNone])]
    ELSE [ok |-> FALSE, value |-> PyNone]

\* The characters of a str value, as iterating over it yields them.
Chars(s) == IF s = "ab" THEN <<"a", "b">> ELSE <<s>>

\* sep.join(strs) for a sequence of strings
RECURSIVE Join(_, _)
Join(sep, strs) ==
    IF strs = <<>> THEN ""
    ELSE IF Len(strs) = 1 THEN strs[1]
    ELSE strs[1] \o sep \o Join(sep, Tail(strs))

\* ', '.join(value): the joined string, or the TypeError raised.
join_value(value) ==
    IF value.t = "str"
    THEN [ok |-> TRUE, text |-> Join(", ", Chars(value.v)), err |-> ""]
    ELSE IF value.t = "list"
    THEN IF \A i \in 1..Len(value.v) : value.v[i].t = "str"
         THEN [ok |-> TRUE,
               text |-> Join(", ", [i \in 1..Len(value.v) |-> value.v[i].v]),
               err |-> ""]
         ELSE [ok |-> FALSE, text |-> "",
               err |-> "sequence item: expected str instance"]
    ELSE [ok |-> FALSE, text |-> "", err |-> "can only join an iterable"]

\* str(value) of a scalar
PyStr(value) == value.v

\* json.dumps(value, indent=2) of a scalar or of a list of scalars
json_dumps(value) ==
    IF value.t = "str" THEN "\"" \o value.v \o "\""
    ELSE IF value.t = "None" THEN "null"
    ELSE IF value.t = "list"
    THEN IF Len(value.v) = 0 THEN "[]"
         ELSE "[\n  "
              \o Join(",\n  ", [i \in 1..Len(value.v) |->
                     IF value.v[i].t = "str" THEN "\"" \o value.v[i].v \o "\""
                     ELSE value.v[i].v])
              \o "\n]"
    ELSE value.v

ErrorPrefix == "Error processing question: "

\* lines 60-70: the formatted answer for the LLM text, or the exception
\* that leaves the inner try.
format_answer(llm_text) ==
    LET parsed == json_loads(llm_text) IN
    IF ~parsed.ok
    THEN [ok |-> TRUE, text |-> llm_text, type |-> "", err |-> ""]  \* except JSONDecodeError
    ELSE LET answer_json == parsed.value IN
         IF answer_json.t # "dict"
         THEN [ok |-> FALSE, text |-> "", type |-> "AttributeError",
               err |-> "'" \o answer_json.t \o "' object has no attribute 'get'"]
         ELSE LET d == answer_json.v
                  conditions == join_value(
                      DictGet(d, "conditions", PyList(<<PyVal("str", "None")>>)))
              IN  IF ~conditions.ok
                  THEN [ok |-> FALSE, text |-> "", type |-> "TypeError",
                        err |-> conditions.err]
                  ELSE [ok |-> TRUE,
                        text |->
                            PyStr(DictGet(d, "answer", PyVal("str", "No answer found.")))
                            \o "\n\nConditions: " \o conditions.text
                            \o "\nReferences: "
                            \o json_dumps(DictGet(d, "references", PyList(<<>>)))
                            \o "\nConfidence: "
                            \o PyStr(DictGet(d, "confidence", PyVal("str", "Unknown")))
                            \o "\nRationale: "
                            \o PyStr(DictGet(d, "rationale", PyVal("str", "Not provided."))),
                        type |-> "", err |-> ""]

(***************************************************************************)
(* api/hackrx/run.py: the request and its handler.                         *)
(***************************************************************************)
Questions == {"q1", "q2"}

RECURSIVE SeqsUpTo(_, _)
SeqsUpTo(S, n) ==
    IF n = 0 THEN {<<>>}
    ELSE LET shorter == SeqsUpTo(S, n - 1) IN
         shorter \cup {Append(s, x) : s \in {t \in shorter : Len(t) = n - 1}, x \in S}

\* payload.documents: only the suffix of the URL decides anything.
DocumentUrls == {".pdf", ".docx", ".eml", ".txt"}

NoResponse == [status |-> 0, success |-> "absent", hasAnswers |-> FALSE,
               answers |-> <<>>, detail |-> ""]

\* The extractor and the chunk loop at rest.
IdleChunker == ci = 0

\* process_query standing alone at rest.
NoTemplate == [template |-> <<>>, input_variables |-> {}]
NoQueryResult == [kind |-> "none", exc |-> NoExc]

IdleQuery ==
    /\ pq_pc = "idle"
    /\ pq_query = <<>>
    /\ pq_domain = PyNone
    /\ prompt_template = NoTemplate
    /\ pq_result = NoQueryResult

PyNoneSeq == <<"None">>

IdleExtractor ==
    /\ xpc = "idle"
    /\ is_url = FALSE
    /\ ext = ""
    /\ file_exists = FALSE
    /\ temp_exists = FALSE
    /\ temp_file_path = PyNoneSeq
    /\ text = <<>>
    /\ stage = 0
    /\ page = 0
    /\ n_pages = 0
    /\ attempted = <<>>
    /\ stage1_text = <<>>
    /\ xresult = [kind |-> "none", value |-> <<>>]

InitRequest ==
    /\ IdleChunker
    /\ IdleQuery
    /\ IdleExtractor
    /\ calls = <<>>
    /\ exc = NoExc
    /\ response = NoResponse
    /\ chunks = <<>>
    /\ vector_store = "None"
    /\ qi = 0
    /\ result = ""
    /\ formatted_answer = ""
    /\ answers = <<>>
    /\ produced = <<>>

\* line 33: await verify_token(authorization)
VerifyToken ==
    /\ pc = "verify"
    /\ LET r == verify_token(authorization) IN
       IF r.type = "True"
       THEN /\ pc' = "init"
            /\ exc' = exc
       ELSE /\ pc' = "except"
            /\ exc' = r
    /\ UNCHANGED <<authorization, document, questions, calls, response, pvars,
                   cvars, evars, qvars>>

\* lines 86-87: except HTTPException: raise
ReraiseHTTPException ==
    /\ pc = "except"
    /\ exc.type = "HTTPException"
    /\ pc' = "done"
    /\ response' = [status |-> exc.status, success |-> "absent",
                    hasAnswers |-> FALSE, answers |-> <<>>,
                    detail |-> exc.detail]
    /\ UNCHANGED <<authorization, document, questions, calls, exc, pvars,
                   cvars, evars, qvars>>

\* lines 88-97: except Exception: raise HTTPException(500, ...)
WrapUnexpected ==
    /\ pc = "except"
    /\ exc.type # "HTTPException"
    /\ pc' = "done"
    /\ response' = [status |-> 500, success |-> "False",
                    hasAnswers |-> FALSE, answers |-> <<>>,
                    detail |-> exc.detail]
    /\ UNCHANGED <<authorization, document, questions, calls, exc, pvars,
                   cvars, evars, qvars>>

\* lines 35-41: start_time, answers = [], the three processors.  The
\* constructors of VectorStoreManager and QueryProcessor re-raise whatever
\* their clients raise.
InitProcessors ==
    /\ pc = "init"
    /\ \E ctorsOk \in BOOLEAN :
          IF ctorsOk
          THEN /\ pc' = "load"
               /\ exc' = exc
          ELSE /\ pc' = "except"
               /\ exc' = [type |-> "Exception", status |-> 0,
                          detail |-> "processor initialization failed"]
    /\ answers' = <<>>
    /\ vector_store' = "None"
    /\ UNCHANGED <<authorization, document, questions, calls, response,
                   raw_docs, chunks, qi, result, formatted_answer, produced,
                   cvars, evars, qvars>>

\* line 44: raw_docs = doc_processor.load_document(payload.documents)
LoadDocument ==
    /\ pc = "load"
    /\ calls' = Append(calls, "load_document")
    /\ \E loaderOk \in BOOLEAN :
          LET r == load_document(document, loaderOk) IN
          IF r.ok
          THEN /\ raw_docs' = r.docs
               /\ pc' = "chunk"
               /\ exc' = exc
          ELSE /\ raw_docs' = raw_docs
               /\ pc' = "except"
               /\ exc' = r.exc
    /\ UNCHANGED <<authorization, document, questions, response, chunks,
                   vector_store, qi, result, formatted_answer, answers, produced,
                   cvars, evars, qvars>>

\* line 45: chunks = doc_processor.chunk_documents(raw_docs)
ChunkDocuments ==
    /\ pc = "chunk"
    /\ calls' = Append(calls, "chunk_documents")
    /\ \E splitOk \in BOOLEAN :
          LET r == chunk_documents(raw_docs, splitOk) IN
          IF r.ok
          THEN /\ chunks' = r.chunks
               /\ pc' = "index"
               /\ exc' = exc
          ELSE /\ chunks' = chunks
               /\ pc' = "except"
               /\ exc' = r.exc
    /\ UNCHANGED <<authorization, document, questions, response, raw_docs,
                   vector_store, qi, result, formatted_answer, answers, produced,
                   cvars, evars, qvars>>

\* line 48: vector_mgr.create_vector_store(chunks, use_pinecone=False)
CreateVectorStore ==
    /\ pc = "index"
    /\ calls' = Append(calls, "create_vector_store")
    /\ \E faissOk \in BOOLEAN :
          LET r == create_vector_store(chunks, faissOk) IN
          IF r.ok
          THEN /\ vector_store' = r.store
               /\ pc' = "loop"
               /\ exc' = exc
          ELSE /\ vector_store' = vector_store
               /\ pc' = "except"
               /\ exc' = r.exc
    /\ qi' = 0
    /\ UNCHANGED <<authorization, document, questions, response, raw_docs,
                   chunks, result, formatted_answer, answers, produced,
                   cvars, evars, qvars>>

\* line 51: for question in payload.questions
NextQuestion ==
    /\ pc = "loop"
    /\ IF qi < Len(questions)
       THEN /\ qi' = qi + 1
            /\ pc' = "search"
       ELSE /\ qi' = qi
            /\ pc' = "return"
    /\ UNCHANGED <<authorization, document, questions, calls, exc, response,
                   raw_docs, chunks, vector_store, result, formatted_answer,
                   answers, produced,
                   cvars, evars, qvars>>

\* line 54: relevant_docs = vector_mgr.similarity_search(question)
SimilaritySearch ==
    /\ pc = "search"
    /\ calls' = Append(calls, "similarity_search")
    /\ \E searchOk \in BOOLEAN :
          LET r == similarity_search(vector_store, questions[qi], searchOk) IN
          IF r.ok
          THEN /\ pc' = "query"
               /\ exc' = exc
          ELSE /\ pc' = "question_except"
               /\ exc' = r.exc
    /\ UNCHANGED <<authorization, document, questions, response, pvars,
                   cvars, evars, qvars>>

\* line 57: result = query_processor.process_query(question, relevant_docs)
ProcessQuery ==
    /\ pc = "query"
    /\ calls' = Append(calls, "process_query")
    /\ \E llmOk \in BOOLEAN, llm_text \in LLMTexts :
          LET r == process_query(questions[qi], llmOk, llm_text) IN
          IF r.ok
          THEN /\ result' = r.result
               /\ pc' = "format"
               /\ exc' = exc
          ELSE /\ result' = result
               /\ pc' = "question_except"
               /\ exc' = r.exc
    /\ UNCHANGED <<authorization, document, questions, response, raw_docs,
                   chunks, vector_store, qi, formatted_answer, answers, produced,
                   cvars, evars, qvars>>

\* lines 60-70: json.loads, the f-string, except json.JSONDecodeError
FormatResponse ==
    /\ pc = "format"
    /\ LET r == format_answer(result) IN
       IF r.ok
       THEN /\ formatted_answer' = r.text
            /\ produced' = Append(produced,
                   [question |-> questions[qi], llm |-> result,
                    raised_by |-> "none", answer |-> r.text])
            /\ pc' = "append"
            /\ exc' = exc
       ELSE /\ formatted_answer' = formatted_answer
            /\ produced' = produced
            /\ pc' = "question_except"
            /\ exc' = [type |-> r.type, status |-> 0, detail |-> r.err]
    /\ UNCHANGED <<authorization, document, questions, calls, response,
                   raw_docs, chunks, vector_store, qi, result, answers,
                   cvars, evars, qvars>>

\* A list insert at the front instead of an append.
ListPrepend(list, item) == <<item>> \o list

\* answers.append(item)
ListAppend(list, item) == Append(list, item)

\* line 72: answers.append(formatted_answer)
AppendAnswer ==
    /\ pc = "append"
    /\ answers' = ListAppend(answers, formatted_answer)
    /\ pc' = "loop"
    /\ UNCHANGED <<authorization, document, questions, calls, exc, response,
                   raw_docs, chunks, vector_store, qi, result,
                   formatted_answer, produced,
                   cvars, evars, qvars>>

\* str(e): "<status>: <detail>" for an HTTPException, the message otherwise
StatusStr(status) == IF status = 400 THEN "400" ELSE "500"
ExcStr(e) ==
    IF e.type = "HTTPException" THEN StatusStr(e.status) \o ": " \o e.detail
    ELSE e.detail

\* Exception and the subclasses of it raised in the model.
ExceptionClasses ==
    {"Exception", "HTTPException", "NameError", "AttributeError", "TypeError"}

\* An except clause that lets HTTPException through, as the outer one does.
QuestionExceptionCaughtNotHTTP(e) ==
    e.type \in ExceptionClasses \ {"HTTPException"}

\* line 73: whether "except Exception as e" catches e
QuestionExceptionCaught(e) == e.type \in ExceptionClasses

\* Where the exception in flight in the loop body came from: the JSON
\* formatting raises AttributeError or TypeError, the two calls raise
\* HTTPException.
RaisedBy(e, invoked) ==
    IF e.type = "HTTPException" THEN invoked[Len(invoked)] ELSE "format"

\* lines 73-75: except Exception as e: answers.append(error string)
QuestionFailed ==
    /\ pc = "question_except"
    /\ IF QuestionExceptionCaught(exc)
       THEN LET msg == ErrorPrefix \o ExcStr(exc) IN
            /\ answers' = ListAppend(answers, msg)
            /\ produced' = Append(produced,
                   [question |-> questions[qi],
                    llm |-> IF RaisedBy(exc, calls) = "format" THEN result ELSE "",
                    raised_by |-> RaisedBy(exc, calls), answer |-> msg])
            /\ exc' = NoExc
            /\ pc' = "loop"
       ELSE /\ pc' = "except"
            /\ UNCHANGED <<answers, produced, exc,
                   cvars, evars, qvars>>
    /\ UNCHANGED <<authorization, document, questions, calls, response,
                   raw_docs, chunks, vector_store, qi, result, formatted_answer,
                   cvars, evars, qvars>>

\* lines 77-84: return {"answers": answers, ..., "success": True}
ReturnAnswers ==
    /\ pc = "return"
    /\ pc' = "done"
    /\ response' = [status |-> 200, success |-> "True", hasAnswers |-> TRUE,
                    answers |-> answers, detail |-> ""]
    /\ UNCHANGED <<authorization, document, questions, calls, exc, pvars,
                   cvars, evars, qvars>>

(***************************************************************************)
(* The handler from line 35 on: the pipeline of a request whose            *)
(* verify_token call has returned.                                         *)
(***************************************************************************)
InitPipeline ==
    /\ pc = "init"
    /\ authorization = BearerPrefix \o ApiKey
    /\ document \in DocumentUrls
    /\ questions \in SeqsUpTo(Questions, MaxQuestions)
    /\ raw_docs = <<>>
    /\ InitRequest

NextPipeline ==
    \/ InitProcessors
    \/ LoadDocument
    \/ ChunkDocuments
    \/ CreateVectorStore
    \/ NextQuestion
    \/ SimilaritySearch
    \/ ProcessQuery
    \/ FormatResponse
    \/ AppendAnswer
    \/ QuestionFailed
    \/ ReturnAnswers
    \/ ReraiseHTTPException
    \/ WrapUnexpected

SpecPipeline == InitPipeline /\ [][NextPipeline]_vars

(***************************************************************************)
(* chunk_documents on its own, step by step, over documents with any of    *)
(* the metadata below.                                                     *)
(***************************************************************************)
\* Values a loader may store under "source", "page" and another key;
\* "absent": the key is not in the metadata.
SourceValues == {PyVal("absent", ""), PyVal("str", "doc.pdf"), PyNone,
                 PyVal("list", "[a, b]")}
PageValues == {PyVal("absent", ""), PyVal("int", "3"), PyNone}
AuthorValues == {PyVal("absent", ""), PyVal("bool", "True"),
                 PyVal("float", "1.5"), PyVal("dict", "{a: b}")}

MetadataOf(source, pageno, author) ==
    LET all == [k \in {"source", "page", "author"} |->
                   CASE k = "source" -> source
                     [] k = "page" -> pageno
                     [] OTHER -> author]
    IN  DictDel(all, {k \in DOMAIN all : all[k].t = "absent"})

ChunkInputDocs ==
    { [pieces |-> n, metadata |-> MetadataOf(s, p, a)] :
        n \in 0..MaxPieces, s \in SourceValues, p \in PageValues,
        a \in AuthorValues }

\* lines 46-51: the splitter and split_documents, which may raise
ChunkSplit ==
    /\ pc = "chunk_split"
    /\ \E splitOk \in BOOLEAN :
          IF splitOk
          THEN /\ chunks' = split_documents(raw_docs)
               /\ pc' = "chunk_loop"
               /\ exc' = exc
          ELSE /\ chunks' = chunks
               /\ pc' = "chunk_raised"
               /\ exc' = chunk_documents(raw_docs, FALSE).exc
    /\ ci' = 0
    /\ UNCHANGED <<authorization, document, questions, calls, response,
                   raw_docs, vector_store, qi, result, formatted_answer,
                   answers, produced, evars, qvars>>

\* lines 54-60: one turn of the loop over the chunks
ChunkEnhance ==
    /\ pc = "chunk_loop"
    /\ ci < Len(chunks)
    /\ chunks' = [chunks EXCEPT ![ci + 1] = EnhanceMetadata(chunks[ci + 1])]
    /\ ci' = ci + 1
    /\ UNCHANGED <<hvars, raw_docs, vector_store, qi, result,
                   formatted_answer, answers, produced, evars, qvars>>

\* line 62: return chunks
ChunkReturn ==
    /\ pc = "chunk_loop"
    /\ ci = Len(chunks)
    /\ pc' = "chunk_returned"
    /\ UNCHANGED <<authorization, document, questions, calls, exc, response,
                   pvars, cvars, evars, qvars>>

InitChunk ==
    /\ pc = "chunk_split"
    /\ authorization = <<>>
    /\ document = ".pdf"
    /\ questions = <<>>
    /\ raw_docs \in SeqsUpTo(ChunkInputDocs, MaxDocs)
    /\ InitRequest

NextChunk ==
    \/ ChunkSplit
    \/ ChunkEnhance
    \/ ChunkReturn

SpecChunk == InitChunk /\ [][NextChunk]_vars

(***************************************************************************)
(* The request from its arrival: authentication and the handler's except   *)
(* clauses.                                                                *)
(***************************************************************************)
InitAuth ==
    /\ pc = "verify"
    /\ authorization \in Headers
    /\ document \in DocumentUrls
    /\ questions \in SeqsUpTo(Questions, MaxQuestions)
    /\ raw_docs = <<>>
    /\ InitRequest

NextAuth ==
    \/ VerifyToken
    \/ ReraiseHTTPException
    \/ WrapUnexpected

SpecAuth == InitAuth /\ [][NextAuth]_vars

(***************************************************************************)
(* extractor.py.  A text is a sequence of characters; a message or a path  *)
(* is a sequence of words, and "in" looks for a word.                      *)
(***************************************************************************)
Whitespace == {" ", "\n"}

\* str.strip()
RECURSIVE LStrip(_)
LStrip(s) ==
    IF s # <<>> /\ Head(s) \in Whitespace THEN LStrip(Tail(s)) ELSE s

RECURSIVE RStrip(_)
RStrip(s) ==
    IF s # <<>> /\ s[Len(s)] \in Whitespace
    THEN RStrip(SubSeq(s, 1, Len(s) - 1)) ELSE s

Strip(s) == RStrip(LStrip(s))

\* sub in s
PyIn(sub, s) == \E i \in 1..Len(s) : s[i] = sub

\* The directory tempfile.NamedTemporaryFile creates its files in.
TempDir == <<"/tmp/">>

\* How a download can go: requests.get or raise_for_status raises; the
\* body cannot be read or written after the temporary file was created;
\* or all goes well.
DownloadOutcomes == {"request_error", "write_error", "ok"}

\* download_pdf(url): the string returned, and whether the temporary file
\* was created (line 20) before it returned.
download_pdf(outcome) ==
    IF outcome = "request_error"
    THEN [result |-> <<"Error", " downloading PDF: ", "request failed">>,
          created |-> FALSE]
    ELSE IF outcome = "write_error"
    THEN [result |-> <<"Error", " downloading PDF: ", "write failed">>,
          created |-> TRUE]
    ELSE [result |-> TempDir \o <<"tmpab12cd", ".pdf">>, created |-> TRUE]

Returned(value) == [kind |-> "returned", value |-> value]
Raised(type) == [kind |-> "raised", value |-> <<type>>]
NotEnded == [kind |-> "none", value |-> <<>>]

\* Extensions of local files.
Extensions == {".pdf", ".docx", ".txt", ".csv"}

\* lines 110-125 of extract_text: the download or the existence check,
\* and the extension.
ExtractTextStart ==
    /\ xpc = "start"
    /\ IF is_url
       THEN \E outcome \in DownloadOutcomes :
               LET r == download_pdf(outcome) IN
               /\ temp_exists' = r.created
               /\ IF PyIn("Error", r.result)
                  THEN /\ xresult' = Returned(r.result)
                       /\ temp_file_path' = temp_file_path
                       /\ xpc' = "finally"
                  ELSE /\ xresult' = xresult
                       /\ temp_file_path' = r.result
                       /\ xpc' = "pdf"
       ELSE /\ UNCHANGED <<temp_exists, temp_file_path>>
            /\ IF ~file_exists
               THEN /\ xresult' = Returned(<<"File not found.">>)
                    /\ xpc' = "finally"
               ELSE /\ xresult' = xresult
                    /\ xpc' = CASE ext = ".pdf" -> "pdf"
                                [] ext = ".docx" -> "docx"
                                [] ext = ".txt" -> "txt"
                                [] OTHER -> "unsupported"
    /\ UNCHANGED <<hvars, pvars, cvars, qvars, is_url, ext, file_exists,
                   text, stage, page, n_pages, attempted, stage1_text>>

\* lines 30-31 of extract_from_pdf: text = "", f = open("file.txt", "w"),
\* outside the try.
PdfOpenSideFile ==
    /\ xpc = "pdf"
    /\ text' = <<>>
    /\ \E opened \in BOOLEAN :
          IF opened
          THEN /\ stage' = 1
               /\ xpc' = "stage_open"
               /\ xresult' = xresult
          ELSE /\ stage' = stage
               /\ xpc' = "finally"
               /\ xresult' = Raised("OSError")
    /\ UNCHANGED <<hvars, pvars, cvars, qvars, is_url, ext, file_exists,
                   temp_exists, temp_file_path, page, n_pages, attempted,
                   stage1_text>>

\* A guard that falls back when there is text.
NeedsFallbackInverted(t) == Strip(t) # <<>>

\* lines 50 and 70: if not text.strip()
NeedsFallback(t) == Strip(t) = <<>>

\* What follows when a stage cannot open the document: pdfplumber.open
\* (line 36) is guarded by the outer try only, so extract_from_pdf returns
\* the error of line 91; stages 2 and 3 have their own except (lines 66
\* and 85) and the next stage follows.
AfterOpenFailure(st) == IF st = 1 THEN "abort" ELSE "next"

\* The position after stage st: the next stage's guard, or line 88.
AfterStage(st) == IF st = 3 THEN "pdf_return" ELSE "stage_open"
NextStageOf(st) == IF st = 3 THEN st ELSE st + 1

\* lines 36, 50-54, 70-73: the guard of the stage and the opening of the
\* document by the stage's reader.
StageOpen ==
    /\ xpc = "stage_open"
    /\ IF stage > 1 /\ ~NeedsFallback(text)
       THEN /\ xpc' = AfterStage(stage)
            /\ stage' = NextStageOf(stage)
            /\ UNCHANGED <<attempted, n_pages, page, xresult, stage1_text>>
       ELSE /\ attempted' = Append(attempted, [stage |-> stage, before |-> text])
            /\ \E opened \in BOOLEAN, n \in 0..MaxPages :
                  IF opened
                  THEN /\ n_pages' = n
                       /\ page' = 0
                       /\ xpc' = "stage_page"
                       /\ UNCHANGED <<stage, xresult, stage1_text>>
                  ELSE /\ UNCHANGED <<n_pages, page>>
                       /\ IF AfterOpenFailure(stage) = "abort"
                          THEN /\ xresult' = Returned(<<"Error", " extracting from PDF: ",
                                                        "cannot open">>)
                               /\ xpc' = "finally"
                               /\ UNCHANGED <<stage, stage1_text>>
                          ELSE /\ xresult' = xresult
                               /\ xpc' = AfterStage(stage)
                               /\ stage' = NextStageOf(stage)
                               /\ stage1_text' = IF stage = 1 THEN text
                                                 ELSE stage1_text
    /\ UNCHANGED <<hvars, pvars, cvars, qvars, is_url, ext, file_exists,
                   temp_exists, temp_file_path, text>>

\* What a page gives: the extraction raises, or returns None, "", blanks
\* or text.
PageKinds == {"raise", "none", "empty", "blank", "text"}

\* The characters of a page: each stage reads its own.
PageText(st, kind) ==
    IF kind = "blank" THEN <<" ">>
    ELSE IF kind = "text"
    THEN <<CASE st = 1 -> "a" [] st = 2 -> "b" [] OTHER -> "c">>
    ELSE <<>>

\* lines 38-47, 56-65, 75-84: one page of a stage.  A page that raises, or
\* whose text is None or "", adds nothing (in stage 1 f.write(None) raises
\* into the page's except).
extract_page(st, t, kind) ==
    IF kind \in {"blank", "text"}
    THEN t \o PageText(st, kind) \o <<"\n", "\n">>
    ELSE t

StagePage ==
    /\ xpc = "stage_page"
    /\ page < n_pages
    /\ \E kind \in PageKinds : text' = extract_page(stage, text, kind)
    /\ page' = page + 1
    /\ UNCHANGED <<hvars, pvars, cvars, qvars, xpc, is_url, ext, file_exists,
                   temp_exists, temp_file_path, stage, n_pages, attempted,
                   stage1_text, xresult>>

\* the stage's loop over the pages is over
StageEnd ==
    /\ xpc = "stage_page"
    /\ page = n_pages
    /\ stage1_text' = IF stage = 1 THEN text ELSE stage1_text
    /\ xpc' = AfterStage(stage)
    /\ stage' = NextStageOf(stage)
    /\ UNCHANGED <<hvars, pvars, cvars, qvars, is_url, ext, file_exists,
                   temp_exists, temp_file_path, text, page, n_pages,
                   attempted, xresult>>

NoTextPdf == <<"No text extracted from PDF.">>

\* line 88: return text if text.strip() else "No text extracted from PDF."
PdfReturn ==
    /\ xpc = "pdf_return"
    /\ xresult' = Returned(IF Strip(text) # <<>> THEN text ELSE NoTextPdf)
    /\ xpc' = "finally"
    /\ UNCHANGED <<hvars, pvars, cvars, qvars, is_url, ext, file_exists,
                   temp_exists, temp_file_path, text, stage, page, n_pages,
                   attempted, stage1_text>>

\* lines 94-107: extract_from_docx; everything is inside its try
ExtractFromDocx ==
    /\ xpc = "docx"
    /\ \E kind \in {"raise", "empty", "text"} :
          xresult' = Returned(
              CASE kind = "raise" -> <<"Error", " extracting from DOCX: ", "cannot open">>
                [] kind = "empty" -> <<"No text extracted from DOCX.">>
                [] OTHER -> <<"d", "\n">>)
    /\ xpc' = "finally"
    /\ UNCHANGED <<hvars, pvars, cvars, qvars, is_url, ext, file_exists,
                   temp_exists, temp_file_path, text, stage, page, n_pages,
                   attempted, stage1_text>>

\* lines 130-137: the .txt branch
ReadTxt ==
    /\ xpc = "txt"
    /\ \E kind \in {"raise", "empty", "text"} :
          xresult' = Returned(
              CASE kind = "raise" -> <<"Error", " reading TXT file: ", "cannot read">>
                [] kind = "empty" -> <<>>
                [] OTHER -> <<"t">>)
    /\ xpc' = "finally"
    /\ UNCHANGED <<hvars, pvars, cvars, qvars, is_url, ext, file_exists,
                   temp_exists, temp_file_path, text, stage, page, n_pages,
                   attempted, stage1_text>>

\* lines 138-140: any other extension
Unsupported ==
    /\ xpc = "unsupported"
    /\ xresult' = Returned(<<"Unsupported file format. Use PDF, DOCX, or TXT.">>)
    /\ xpc' = "finally"
    /\ UNCHANGED <<hvars, pvars, cvars, qvars, is_url, ext, file_exists,
                   temp_exists, temp_file_path, text, stage, page, n_pages,
                   attempted, stage1_text>>

\* lines 141-147: finally; os.remove may fail, which is logged
Finally ==
    /\ xpc = "finally"
    /\ IF is_url /\ temp_file_path # PyNoneSeq /\ temp_exists
       THEN \E removed \in BOOLEAN : temp_exists' = ~removed
       ELSE temp_exists' = temp_exists
    /\ xpc' = "done"
    /\ UNCHANGED <<hvars, pvars, cvars, qvars, is_url, ext, file_exists,
                   temp_file_path, text, stage, page, n_pages, attempted,
                   stage1_text, xresult>>

\* extract_text(input_source, is_url) for a URL or a local file.
InitExtract ==
    /\ xpc = "start"
    /\ is_url \in BOOLEAN
    /\ IF is_url
       THEN /\ ext = "" /\ file_exists = FALSE
       ELSE /\ ext \in Extensions /\ file_exists \in BOOLEAN
    /\ temp_exists = FALSE
    /\ temp_file_path = PyNoneSeq
    /\ text = <<>>
    /\ stage = 0
    /\ page = 0
    /\ n_pages = 0
    /\ attempted = <<>>
    /\ stage1_text = <<>>
    /\ xresult = NotEnded
    /\ IdleChunker
    /\ IdleQuery
    /\ pc = "idle"
    /\ authorization = <<>>
    /\ document = ""
    /\ questions = <<>>
    /\ raw_docs = <<>>
    /\ calls = <<>>
    /\ exc = NoExc
    /\ response = NoResponse
    /\ chunks = <<>>
    /\ vector_store = "None"
    /\ qi = 0
    /\ result = ""
    /\ formatted_answer = ""
    /\ answers = <<>>
    /\ produced = <<>>

NextExtract ==
    \/ ExtractTextStart
    \/ PdfOpenSideFile
    \/ StageOpen
    \/ StagePage
    \/ StageEnd
    \/ PdfReturn
    \/ ExtractFromDocx
    \/ ReadTxt
    \/ Unsupported
    \/ Finally

SpecExtract == InitExtract /\ [][NextExtract]_vars

(***************************************************************************)
(* app/processors.py: QueryProcessor, the prompt of process_query.         *)
(* A question is a sequence of characters.  A template is the sequence of  *)
(* its parts: literal text, a {name} replacement field, or a key of the    *)
(* JSON object it spells out.                                              *)
(***************************************************************************)
Lit(s) == [kind |-> "text", v |-> s]
Slot(name) == [kind |-> "slot", v |-> name]
JsonKey(name) == [kind |-> "json_key", v |-> name]

\* The replacement fields of a template.
Slots(template) ==
    {template[i].v : i \in {j \in 1..Len(template) : template[j].kind = "slot"}}

\* PromptTemplate(template=..., input_variables=...)
PromptTemplate(template, input_variables) ==
    [template |-> template, input_variables |-> input_variables]

\* PromptTemplate.from_template: the input variables are the template's
\* replacement fields.
from_template(template) == PromptTemplate(template, Slots(template))

GeneralInstructions == "You are an expert document analyst for HackRx 6.0. Analyze the context and answer precisely."
SchemaDirective == "Respond in this JSON format:"
Guidelines == "Guidelines: be factual and concise; only use provided context; include all relevant conditions; exact definitions for legal/insurance terms"

_create_prompt_template ==
    PromptTemplate(
        << Lit(GeneralInstructions),
           Lit("Context:"), Slot("context"),
           Lit("Question:"), Slot("question"),
           Lit(SchemaDirective),
           JsonKey("answer"), JsonKey("conditions"), JsonKey("references"),
           JsonKey("rationale"), JsonKey("confidence"),
           Lit(Guidelines) >>,
        {"context", "question"})

InsuranceInstructions == "Insurance Policy Analysis for HackRx: Focus on: coverage, exclusions, waiting periods, claim procedures. Highlight sub-limits, co-payments, special conditions."
LegalInstructions == "Legal Document Analysis for HackRx: Focus on: obligations, rights, termination clauses, liabilities. Highlight defined terms, jurisdictional aspects."
HrInstructions == "HR Policy Analysis for HackRx: Focus on: employee benefits, leave policies, code of conduct. Highlight eligibility criteria, probation periods."
ComplianceInstructions == "Compliance Document Analysis for HackRx: Focus on: regulatory requirements, reporting obligations. Highlight deadlines, penalties, certification requirements."

\* The domains dict of _create_domain_templates: the whole text of each
\* template.
DomainTexts ==
    [d \in {"insurance", "legal", "hr", "compliance"} |->
        CASE d = "insurance"  -> <<Lit(InsuranceInstructions)>>
          [] d = "legal"      -> <<Lit(LegalInstructions)>>
          [] d = "hr"         -> <<Lit(HrInstructions)>>
          [] d = "compliance" -> <<Lit(ComplianceInstructions)>>]

_create_domain_templates ==
    [d \in DOMAIN DomainTexts |-> from_template(DomainTexts[d])]

\* str.lower() on the letters of the model's questions.
UpperLetters == <<"A", "B", "C", "D", "E", "F", "G", "H", "I", "J", "K", "L", "M",
                  "N", "O", "P", "Q", "R", "S", "T", "U", "V", "W", "X", "Y", "Z">>
LowerLetters == <<"a", "b", "c", "d", "e", "f", "g", "h", "i", "j", "k", "l", "m",
                  "n", "o", "p", "q", "r", "s", "t", "u", "v", "w", "x", "y", "z">>

LowerChar(c) ==
    IF \E i \in 1..Len(UpperLetters) : UpperLetters[i] = c
    THEN LowerLetters[CHOOSE i \in 1..Len(UpperLetters) : UpperLetters[i] = c]
    ELSE c

Lower(s) == [i \in 1..Len(s) |-> LowerChar(s[i])]

\* sub in s, for strings
Contains(sub, s) ==
    \E i \in 1..(Len(s) - Len(sub) + 1) : SubSeq(s, i, i + Len(sub) - 1) = sub

InsuranceTerms ==
    { <<"p", "o", "l", "i", "c", "y">>,
      <<"c", "o", "v", "e", "r">>,
      <<"p", "r", "e", "m", "i", "u", "m">>,
      <<"c", "l", "a", "i", "m">> }

LegalTerms ==
    { <<"c", "l", "a", "u", "s", "e">>,
      <<"c", "o", "n", "t", "r", "a", "c", "t">>,
      <<"a", "g", "r", "e", "e", "m", "e", "n", "t">> }

HrTerms ==
    { <<"e", "m", "p", "l", "o", "y", "e", "e">>,
      <<"l", "e", "a", "v", "e">>,
      <<"b", "e", "n", "e", "f", "i", "t">> }

ComplianceTerms ==
    { <<"c", "o", "m", "p", "l", "i", "a", "n", "c", "e">>,
      <<"r", "e", "g", "u", "l", "a", "t", "i", "o", "n">>,
      <<"a", "u", "d", "i", "t">> }

_determine_domain(question) ==
    LET question_lower == Lower(question) IN
    IF \E term \in InsuranceTerms : Contains(term, question_lower)
    THEN "insurance"
    ELSE IF \E term \in LegalTerms : Contains(term, question_lower)
    THEN "legal"
    ELSE IF \E term \in HrTerms : Contains(term, question_lower)
    THEN "hr"
    ELSE IF \E term \in ComplianceTerms : Contains(term, question_lower)
    THEN "compliance"
    ELSE "general"

\* Python truth value of the domain argument: None and '' are false.
Truthy(value) == value # PyNone /\ value # PyVal("str", "")

\* The questions process_query is called with.
QueryTexts ==
    { <<"P", "o", "l", "i", "c", "y", "?">>,
      <<"t", "h", "e", " ", "c", "o", "n", "t", "r", "a", "c", "t">>,
      <<"s", "i", "c", "k", " ", "l", "e", "a", "v", "e">>,
      <<"A", "U", "D", "I", "T">>,
      <<"w", "h", "o", " ", "s", "i", "g", "n", "s">>,
      <<"l", "e", "a", "v", "e", " ", "p", "o", "l", "i", "c", "y">>,
      <<"d", "i", "s", "c", "o", "v", "e", "r", "e", "d">> }

\* The domain arguments a caller may pass: none (the default), '', each of
\* the five domains, and a name that is none of them.
DomainArgs ==
    {PyNone} \cup
    {PyVal("str", d) : d \in {"", "insurance", "legal", "hr", "compliance",
                              "general", "finance"}}

\* lines 218-219: if not domain: domain = self._determine_domain(query)
DetermineDomain ==
    /\ pq_pc = "start"
    /\ pq_domain' = IF ~Truthy(pq_domain)
                    THEN PyVal("str", _determine_domain(pq_query))
                    ELSE pq_domain
    /\ pq_pc' = "select"
    /\ UNCHANGED <<hvars, pvars, cvars, evars, pq_query, prompt_template,
                   pq_result>>

\* line 221: prompt_template =
\*     self.domain_specific_templates.get(domain, self.prompt_template)
SelectTemplate ==
    /\ pq_pc = "select"
    /\ prompt_template' = DictGet(_create_domain_templates, pq_domain.v,
                                  _create_prompt_template)
    /\ pq_pc' = "chain"
    /\ UNCHANGED <<hvars, pvars, cvars, evars, pq_query, pq_domain,
                   pq_result>>

\* lines 223-244: the chain is built with the template and run; whatever
\* it raises is wrapped in an HTTPException 500.
RunChain ==
    /\ pq_pc = "chain"
    /\ \E chainOk \in BOOLEAN :
          IF chainOk
          THEN /\ pq_pc' = "returned"
               /\ pq_result' = [kind |-> "returned", exc |-> NoExc]
          ELSE /\ pq_pc' = "raised"
               /\ pq_result' =
                      [kind |-> "raised",
                       exc |-> HTTPException(500,
                                  "Query processing error: chain failed")]
    /\ UNCHANGED <<hvars, pvars, cvars, evars, pq_query, pq_domain,
                   prompt_template>>

InitQuery ==
    /\ pq_pc = "start"
    /\ pq_query \in QueryTexts
    /\ pq_domain \in DomainArgs
    /\ prompt_template = NoTemplate
    /\ pq_result = NoQueryResult
    /\ IdleChunker
    /\ IdleExtractor
    /\ pc = "idle"
    /\ authorization = <<>>
    /\ document = ""
    /\ questions = <<>>
    /\ raw_docs = <<>>
    /\ calls = <<>>
    /\ exc = NoExc
    /\ response = NoResponse
    /\ chunks = <<>>
    /\ vector_store = "None"
    /\ qi = 0
    /\ result = ""
    /\ formatted_answer = ""
    /\ answers = <<>>
    /\ produced = <<>>

NextQuery ==
    \/ DetermineDomain
    \/ SelectTemplate
    \/ RunChain

SpecQuery == InitQuery /\ [][NextQuery]_vars

(***************************************************************************)
(* Properties of process_documents.                                        *)
(***************************************************************************)
Prerequisites == <<"load_document", "chunk_documents", "create_vector_store">>
PrerequisiteSet == {Prerequisites[i] : i \in 1..Len(Prerequisites)}
QuestionCalls == {"similarity_search", "process_query"}

Count(seq, x) == Cardinality({i \in 1..Len(seq) : seq[i] = x})

\* All three prerequisites succeeded: only then is the store set (line 104).
PrerequisitesSucceeded == vector_store = "FAISS"

\* The error strings a failing retrieval or synthesis call leaves in a slot.
CallErrorStrings ==
    { ErrorPrefix \o ExcStr(similarity_search("FAISS", q, FALSE).exc) : q \in Questions }
    \cup { ErrorPrefix \o ExcStr(process_query(q, FALSE, "").exc) : q \in Questions }

\* C1: when the prerequisites all succeeded, the request returns an answers
\* list with exactly one entry per question, and entry i is the outcome
\* that was produced for questions[i], in input order.
C1_OneAnswerPerQuestionInOrder ==
    (pc = "done" /\ PrerequisitesSucceeded) =>
        /\ response.hasAnswers
        /\ Len(response.answers) = Len(questions)
        /\ Len(produced) = Len(questions)
        /\ \A i \in 1..Len(questions) :
              /\ produced[i].question = questions[i]
              /\ response.answers[i] = produced[i].answer

\* A finished request with two different questions, the first failing in
\* retrieval and the second answered.
C1_Witness ==
    /\ pc = "done"
    /\ PrerequisitesSucceeded
    /\ Len(questions) = 2
    /\ questions[1] # questions[2]
    /\ produced[1].raised_by = "similarity_search"
    /\ produced[2].raised_by = "none"
    /\ response.answers[1] # response.answers[2]

\* C2: a question whose similarity_search or process_query raised has an
\* error string in its slot; every question is still searched for; and a
\* request whose prerequisites succeeded ends with the success response.
C2_QuestionFailureIsolated ==
    /\ \A i \in 1..Len(produced) :
          produced[i].raised_by \in QuestionCalls =>
              /\ i <= Len(answers)
              /\ answers[i] \in CallErrorStrings
    /\ (pc = "done" /\ PrerequisitesSucceeded) =>
          /\ Count(calls, "similarity_search") = Len(questions)
          /\ response.status = 200
          /\ response.success = "True"
          /\ response.answers = answers

\* The first of two questions failed in retrieval, the second was answered
\* from the LLM's structured output, and the response is the success one.
C2_Witness ==
    /\ pc = "done"
    /\ response.success = "True"
    /\ Len(questions) = 2
    /\ produced[1].raised_by = "similarity_search"
    /\ produced[2].raised_by = "none"
    /\ produced[2].llm = FullText
    /\ response.answers[1] \in CallErrorStrings
    /\ response.answers[2] \notin CallErrorStrings

(***************************************************************************)
(* Properties of authentication.                                           *)
(***************************************************************************)
CarriesSecret(auth) == auth = BearerPrefix \o ApiKey

\* C3: a request without the Bearer prefix or with another token ends in
\* 401 with no pipeline function invoked; a request carrying the secret
\* is not ended by authentication but goes on to the pipeline.
C3_UnauthorizedRejectedSecretProceeds ==
    /\ calls = <<>>
    /\ (pc = "done" /\ ~CarriesSecret(authorization)) => response.status = 401
    /\ (pc # "verify" /\ CarriesSecret(authorization)) => pc = "init"

(***************************************************************************)
(* Properties of the answer formatting and of the request as a whole.      *)
(***************************************************************************)
\* The LLM texts that are a JSON object with the expected field shapes.
StructuredTexts == {AnswerOnlyText, FullText}

\* C9: whenever the LLM text is not valid structured data, the question's
\* slot holds the raw LLM text unchanged.
C9_RawTextFallback ==
    \A i \in 1..Len(produced) :
        (produced[i].llm \in LLMTexts \ StructuredTexts) =>
            produced[i].answer = produced[i].llm

\* Every call the handler has made is a prerequisite, in order and at most
\* once, followed by question calls only.
PrerequisitesFirstInOrder ==
    \E n \in 0..Len(Prerequisites) :
        /\ n <= Len(calls)
        /\ SubSeq(calls, 1, n) = SubSeq(Prerequisites, 1, n)
        /\ \A i \in (n + 1)..Len(calls) : calls[i] \in QuestionCalls
        /\ (Len(calls) > n) => (n = Len(Prerequisites) /\ PrerequisitesSucceeded)

\* A request that ends in an error has processed no question and carries
\* no answers; one whose prerequisites succeeded ends in success.
FailureIsWholeRequest ==
    /\ (pc = "done" /\ response.status # 200) =>
          /\ ~PrerequisitesSucceeded
          /\ \A i \in 1..Len(calls) : calls[i] \notin QuestionCalls
          /\ produced = <<>>
          /\ ~response.hasAnswers
          /\ response.answers = <<>>
    /\ (pc = "done" /\ response.status = 200) =>
          /\ PrerequisitesSucceeded
          /\ \A i \in 1..Len(Prerequisites) : Count(calls, Prerequisites[i]) = 1
    /\ (pc = "done" /\ PrerequisitesSucceeded) => response.status = 200

\* C10 as stated: in addition, a request fails only because one of the
\* three prerequisite calls failed, that is, the last call made is the
\* prerequisite that raised.
C10_FailsOnlyForPrerequisite ==
    /\ PrerequisitesFirstInOrder
    /\ FailureIsWholeRequest
    /\ (pc = "done" /\ response.status # 200) =>
          /\ calls # <<>>
          /\ calls[Len(calls)] \in PrerequisiteSet

\* C10 amended: the prerequisites run in order, at most once each and all
\* before the first similarity_search; a failing request has processed no
\* question and carries no answers; and a request fails only before the
\* first question: in the construction of the processors or in one of the
\* three prerequisite calls.
C10_FailsOnlyBeforeQuestions ==
    /\ PrerequisitesFirstInOrder
    /\ FailureIsWholeRequest
    /\ (pc = "done" /\ response.status # 200) =>
          \/ calls = <<>> /\ exc.type = "Exception"
          \/ calls # <<>> /\ calls[Len(calls)] \in PrerequisiteSet
                          /\ exc.type = "HTTPException"

\* A request whose index build failed after load and chunk succeeded:
\* a single error response, no question processed.
C10_Witness ==
    /\ pc = "done"
    /\ response.status = 500
    /\ calls = Prerequisites
    /\ Len(questions) = 2
    /\ answers = <<>>

(***************************************************************************)
(* Properties of chunk_documents.                                          *)
(***************************************************************************)
PrimitiveTypes == {"str", "int", "float", "bool"}

\* C8: in every chunk chunk_documents returns, every metadata value is a
\* string, a number or a boolean, and every key under which the loaded
\* document held another kind of value is gone.
C8_MetadataPrimitive ==
    pc = "chunk_returned" =>
        \A i \in 1..Len(chunks) :
            LET m == chunks[i].metadata
                loaded == raw_docs[chunks[i].origin].metadata
            IN  /\ \A key \in DOMAIN m : m[key].t \in PrimitiveTypes
                /\ \A key \in DOMAIN loaded :
                      loaded[key].t \notin PrimitiveTypes => key \notin DOMAIN m

\* Chunks were returned for a document whose source was a list and whose
\* author was a dict, next to a primitive page.
C8_Witness ==
    /\ pc = "chunk_returned"
    /\ Len(chunks) >= 2
    /\ LET loaded == raw_docs[chunks[2].origin].metadata IN
          /\ DOMAIN loaded = {"source", "page", "author"}
          /\ loaded["source"].t = "list"
          /\ loaded["author"].t = "dict"
          /\ DOMAIN chunks[2].metadata = {"page", "start_index"}

C5_FallbackComplete ==
    (xresult.kind = "returned" /\ attempted # <<>> /\ Strip(text) = <<>>) =>
        /\ Len(attempted) = 3
        /\ xresult.value = NoTextPdf

\* C6: extract_text never raises to its caller.
C6_NeverRaises == xpc = "done" => xresult.kind = "returned"

\* C7: when extract_text called with is_url=True has ended, the temporary
\* file of download_pdf does not exist.
C7_TempFileRemoved == (xpc = "done" /\ is_url) => ~temp_exists

\* The value the chunk is to carry under key: the loader's when it
\* supplied one, the default otherwise.
ExpectedEntry(loaded, key, default) == DictGet(loaded, key, default)

\* C12: every chunk chunk_documents returns has a 'source' and a 'page'
\* entry, the loader's value when it supplied one and 'unknown' / 0
\* otherwise, whatever the loaded metadata held.
C12_SourceAndPagePresent ==
    pc = "chunk_returned" =>
        \A i \in 1..Len(chunks) :
            LET m == chunks[i].metadata
                loaded == raw_docs[chunks[i].origin].metadata
            IN  /\ "source" \in DOMAIN m
                /\ "page" \in DOMAIN m
                /\ m["source"] = ExpectedEntry(loaded, "source", StrUnknown)
                /\ m["page"] = ExpectedEntry(loaded, "page", IntZero)

\* The five domains process_query distinguishes.
FiveDomains == {"insurance", "legal", "hr", "compliance", "general"}

\* The five fields of the answer schema.
SchemaFields == {"answer", "conditions", "references", "rationale", "confidence"}

\* The instructions written for a domain.
InstructionsFor(d) ==
    CASE d = "insurance"  -> InsuranceInstructions
      [] d = "legal"      -> LegalInstructions
      [] d = "hr"         -> HrInstructions
      [] d = "compliance" -> ComplianceInstructions
      [] OTHER            -> GeneralInstructions

Parts(p) == {p.template[i] : i \in 1..Len(p.template)}

\* C11: whichever of the five domains is selected, the template that
\* process_query hands to the chain has the domain's instructions, a slot
\* for the context, a slot for the question, and the schema directive
\* naming the five fields.
C11_PromptHasAllParts ==
    (pq_pc \in {"chain", "returned", "raised"} /\ pq_domain.v \in FiveDomains) =>
        /\ Lit(InstructionsFor(pq_domain.v)) \in Parts(prompt_template)
        /\ Slot("context") \in Parts(prompt_template)
        /\ Slot("question") \in Parts(prompt_template)
        /\ {"context", "question"} \subseteq prompt_template.input_variables
        /\ Lit(SchemaDirective) \in Parts(prompt_template)
        /\ \A f \in SchemaFields : JsonKey(f) \in Parts(prompt_template)

====
